---- MODULE Spec2Model ----
(***************************************************************************)
(* cf_ai_finsight: the UserSession Durable Object (src/src/UserSession.ts, *)
(* backend/src/objects/UserSession.ts) and the BriefingWorkflow            *)
(* (backend/src/workflows/BriefingWorkflow.ts).                            *)
(*                                                                         *)
(* Scheduling of a Durable Object: one JavaScript thread per object.  A    *)
(* handler runs without interruption until it awaits.  While it awaits a   *)
(* storage operation the input gate keeps every other event out, so a      *)
(* handler is atomic across storage.get / storage.put.  While it awaits    *)
(* anything else (here: AI.run) other requests are delivered to the same   *)
(* object and run against the same in-memory fields.                       *)
(***************************************************************************)
EXTENDS Integers, Sequences, FiniteSets, TLC

\* ------------------------------------------------------------------ bounds
MaxCalls == 2          \* requests sent to the actor in one behaviour
MaxRestarts == 1       \* evictions / restarts of the actor's process
MaxInstances == 1      \* workflow instances created in one behaviour
MaxAttempts == 2       \* attempts the engine gives one step before it gives up
MaxCrashes == 1        \* restarts of the workflow engine
MaxTicks == 2          \* advances of the clock in one behaviour
MaxBeyond == 1         \* entries a stored history has beyond the context limit

Calls == 1..MaxCalls
Instances == 1..MaxInstances

\* --------------------------------------------------------------- constants
\* UserSession.ts:178  this.chatHistory.slice(-20)
RecentLimit == 20

\* Text is a sequence of chunks; the chunk " " is white space.
Blank == " "
\* UserSession.ts:201
ApologyText == <<"I apologize, but I encountered an issue generating a response. Please try again.">>
\* UserSession.ts:206
NoResponseText == <<"No response generated">>
\* UserSession.ts:284
BriefingMarker == "Daily Financial Briefing"
\* UserSession.ts:42-52
SYSTEM_PROMPT == <<"You are FinSight">>

VARIABLES
  chatHistory,       \* UserSession.chatHistory (in memory)
  financialProfile,  \* UserSession.financialProfile (in memory)
  initialized,       \* UserSession.initialized
  storage,           \* ctx.storage: key -> value, DOMAIN = the keys present
  reqs,              \* the requests to the actor: call id -> request record
  restarts,          \* restarts of the actor's process so far
  now,               \* the clock read by new Date()
  history,           \* backend UserSession.history (in memory)
  instances,         \* workflow instance id -> its record {status, output, error, params}
  stepResults,       \* instance id -> step name -> StepResult, DOMAIN = the steps checkpointed
  failures,          \* instance id -> step name -> attempts of the step that threw
  run,               \* instance id -> the live execution of run(): position and locals
  executions,        \* instrumentation: instance id -> step name -> times the body was entered
  crashes,           \* restarts of the workflow engine so far
  ui                 \* the state of the Chat component of the page

\* No handler of the actor and no step of the workflow touches the page, so
\* ui is among the variables each of them leaves as they are.
actorVars == <<chatHistory, financialProfile, initialized, reqs, restarts, ui>>
wfVars == <<history, instances, stepResults, failures, run, executions, crashes, ui>>
vars == <<chatHistory, financialProfile, initialized, storage, reqs, restarts, now,
          history, instances, stepResults, failures, run, executions, crashes, ui>>

\* --------------------------------------------------------------- helpers
\* storage.put(key, value) on the key-value store
Put(s, k, v) == [x \in DOMAIN s \cup {k} |-> IF x = k THEN v ELSE s[x]]

\* { ...p, ...u }: later values overwrite same-named earlier ones
Spread(p, u) == [k \in DOMAIN p \cup DOMAIN u |-> IF k \in DOMAIN u THEN u[k] ELSE p[k]]

RECURSIVE TrimStart(_)
TrimStart(t) == IF t # <<>> /\ Head(t) = Blank THEN TrimStart(Tail(t)) ELSE t

RECURSIVE TrimEnd(_)
TrimEnd(t) == IF t # <<>> /\ t[Len(t)] = Blank THEN TrimEnd(SubSeq(t, 1, Len(t) - 1)) ELSE t

\* String.prototype.trim (UserSession.ts:148)
Trim(t) == TrimEnd(TrimStart(t))

\* Mutant of SliceLast: slice(0, n), the oldest n entries.
SliceFirst(h, n) == IF Len(h) <= n THEN h ELSE SubSeq(h, 1, n)

\* Array.prototype.slice(-n)
SliceLast(h, n) == IF Len(h) <= n THEN h ELSE SubSeq(h, Len(h) - n + 1, Len(h))

\* A ChatMessage.  call is instrumentation: the request that appended it.
ChatMessage(r, c, t, id) == [role |-> r, content |-> c, timestamp |-> t, call |-> id]

\* ----------------------------------------------------- UserSession (root)
\* Mutant of LoadedHistory: initialize() does not read 'chatHistory' and
\* starts every process with an empty history.
LoadedHistoryNotRead == IF initialized THEN chatHistory ELSE <<>>

\* Mutant of LoadedProfile: initialize() does not read 'financialProfile'
\* and starts every process with an empty profile.
LoadedProfileNotRead == IF initialized THEN financialProfile ELSE <<>>

\* initialize(): the values the fields hold once it has returned
LoadedHistory ==
  IF initialized THEN chatHistory
  ELSE IF "chatHistory" \in DOMAIN storage THEN storage["chatHistory"] ELSE <<>>

LoadedProfile ==
  IF initialized THEN financialProfile
  ELSE IF "financialProfile" \in DOMAIN storage THEN storage["financialProfile"] ELSE <<>>

\* Mutant of InitializedAfterLoad: initialize() forgets to set the flag, so
\* every request loads the fields from storage again.
InitializedNeverSet == FALSE

\* this.initialized = true (UserSession.ts:78)
InitializedAfterLoad == TRUE

\* saveState(): put chatHistory, then put financialProfile.  w is what the
\* store does: "ok", "fail1" (the first put rejects), "fail2" (the second).
SaveOutcomes == {"ok", "fail1", "fail2"}

SaveState(h, p, w) ==
  CASE w = "ok"    -> Put(Put(storage, "chatHistory", h), "financialProfile", p)
    [] w = "fail1" -> storage
    [] w = "fail2" -> Put(storage, "chatHistory", h)

\* The reply of AI.run: an object that may or may not carry 'response'.
AiReplies == { [response |-> <<"advice">>], [response |-> <<>>], <<>> }

\* UserSession.ts:199-201
AssistantContent(ai) == IF "response" \in DOMAIN ai THEN ai["response"] ELSE ApologyText

\* Mutant of ContentOrDefault: the content is pushed as AI.run gave it.
ContentAsReplied(c) == c

\* UserSession.ts:206  assistantContent || 'No response generated'
ContentOrDefault(c) == IF c = <<>> THEN NoResponseText ELSE c

\* UserSession.ts:165-185  the messages handed to AI.run
ContextMessages(h, p) ==
  <<[role |-> "system", content |-> SYSTEM_PROMPT, profiled |-> (DOMAIN p # {})]>>
  \o [i \in 1..Len(SliceLast(h, RecentLimit)) |->
        [role |-> SliceLast(h, RecentLimit)[i].role,
         content |-> SliceLast(h, RecentLimit)[i].content,
         profiled |-> FALSE]]

\* A request not yet sent, to the actor or to a workflow route of the
\* worker.  context is the local 'messages' of a sendMessage that awaits
\* AI.run; instanceId is the id in a workflow route's request or response.
\* Instrumentation: known, the instance asked for existed; aiFailed, AI.run rejected; loaded,
\* the initialize() of this request read the storage; life, the number of
\* restarts of the process that handled it; seen, the history a sendMessage
\* found when it started, kept while it awaits AI.run.
NewRequest ==
  [op |-> "none", pc |-> "new", status |-> 0, message |-> <<>>, briefing |-> <<>>,
   idempotencyKey |-> "", updates |-> <<>>, body |-> <<>>, profile |-> <<>>,
   context |-> <<>>, instanceId |-> 0,
   aiFailed |-> FALSE, loaded |-> FALSE, life |-> 0, seen |-> <<>>, known |-> FALSE]

\* The Response a handler returns: status, and the history or message in its body
Respond(c, st, b) ==
  [reqs EXCEPT ![c].pc = "done", ![c].status = st, ![c].body = b,
               ![c].context = <<>>, ![c].seen = <<>>]

\* await this.initialize() at the head of fetch (UserSession.ts:94-95,
\* backend UserSession.ts:29-30): ld tells whether it read the storage.
Arrive(rq, c, ld) == [rq EXCEPT ![c].loaded = ld, ![c].life = restarts]

\* A request reaches the object in the order of its id.
CanArrive(c) == reqs[c].pc = "new" /\ \A d \in 1..(c - 1) : reqs[d].pc # "new"

ChatTexts == { <<"hi">>, <<Blank, "yo", Blank>>, <<Blank>> }

\* POST /chat up to the await of AI.run (UserSession.ts:94-104, 146-196)
HandleChatStart(c, text) ==
  /\ CanArrive(c)
  /\ initialized' = InitializedAfterLoad
  /\ financialProfile' = LoadedProfile
  /\ IF Trim(text) = <<>>
       THEN /\ chatHistory' = LoadedHistory
            /\ reqs' = Arrive([Respond(c, 400, <<>>) EXCEPT ![c].op = "chat",
                                                            ![c].message = text],
                               c, ~initialized)
       ELSE /\ chatHistory' = Append(LoadedHistory, ChatMessage("user", Trim(text), now, c))
            /\ reqs' = Arrive([reqs EXCEPT ![c].op = "chat", ![c].message = text,
                                            ![c].pc = "ai",
                                            ![c].context =
                                               ContextMessages(chatHistory', financialProfile'),
                                            ![c].seen = LoadedHistory],
                               c, ~initialized)
  /\ UNCHANGED <<storage, restarts, now, wfVars>>

\* Mutant of HandleChatReply: the assistant message carries no reading of
\* the clock but a fixed early time.
HandleChatReplyUnstamped(c, ai, w) ==
  /\ reqs[c].pc = "ai"
  /\ LET assistantMessage ==
           ChatMessage("assistant", ContentOrDefault(AssistantContent(ai)), 0 - 1, c)
     IN /\ chatHistory' = Append(chatHistory, assistantMessage)
        /\ storage' = SaveState(chatHistory', financialProfile, w)
        /\ reqs' = IF w = "ok" THEN Respond(c, 200, <<assistantMessage>>)
                   ELSE Respond(c, 500, <<>>)
  /\ UNCHANGED <<financialProfile, initialized, restarts, now, wfVars>>

\* AI.run resolves: the assistant message is pushed and the state saved
\* (UserSession.ts:198-223); a rejected put is caught in fetch (133-139).
HandleChatReply(c, ai, w) ==
  /\ reqs[c].pc = "ai"
  /\ LET assistantMessage ==
           ChatMessage("assistant", ContentOrDefault(AssistantContent(ai)), now, c)
     IN /\ chatHistory' = Append(chatHistory, assistantMessage)
        /\ storage' = SaveState(chatHistory', financialProfile, w)
        /\ reqs' = IF w = "ok" THEN Respond(c, 200, <<assistantMessage>>)
                   ELSE Respond(c, 500, <<>>)
  /\ UNCHANGED <<financialProfile, initialized, restarts, now, wfVars>>

\* AI.run rejects: the exception reaches the catch of fetch (UserSession.ts:133-139)
HandleChatAiThrows(c) ==
  /\ reqs[c].pc = "ai"
  /\ reqs' = [Respond(c, 500, <<>>) EXCEPT ![c].aiFailed = TRUE]
  /\ UNCHANGED <<chatHistory, financialProfile, initialized, storage, restarts, now, wfVars>>

\* Mutant of GetHistory: the handler also calls saveState before it answers.
GetHistorySaves(c) ==
  /\ CanArrive(c)
  /\ initialized' = InitializedAfterLoad
  /\ chatHistory' = LoadedHistory
  /\ financialProfile' = LoadedProfile
  /\ storage' = SaveState(chatHistory', financialProfile', "ok")
  /\ reqs' = Arrive([Respond(c, 200, LoadedHistory) EXCEPT ![c].op = "history"],
                     c, ~initialized)
  /\ UNCHANGED <<restarts, now, wfVars>>

\* GET /history (UserSession.ts:94-110, 228-233)
GetHistory(c) ==
  /\ CanArrive(c)
  /\ initialized' = InitializedAfterLoad
  /\ chatHistory' = LoadedHistory
  /\ financialProfile' = LoadedProfile
  /\ reqs' = Arrive([Respond(c, 200, LoadedHistory) EXCEPT ![c].op = "history"],
                     c, ~initialized)
  /\ UNCHANGED <<storage, restarts, now, wfVars>>

ProfileUpdates == { [monthlyIncome |-> 1500], [totalDebt |-> 2000] }

\* Mutant of MergedProfile: lastUpdated is written before the updates are
\* spread, so a lastUpdated carried by the updates wins.
MergedProfileUpdatesLast(p, u, t) == Spread(Spread(p, [lastUpdated |-> t]), u)

\* UserSession.ts:242-246  { ...this.financialProfile, ...updates, lastUpdated }
MergedProfile(p, u, t) == Spread(Spread(p, u), [lastUpdated |-> t])

\* POST /profile (UserSession.ts:94-115, 238-254)
UpdateProfile(c, updates, w) ==
  /\ CanArrive(c)
  /\ initialized' = InitializedAfterLoad
  /\ chatHistory' = LoadedHistory
  /\ financialProfile' = MergedProfile(LoadedProfile, updates, now)
  /\ storage' = SaveState(chatHistory', financialProfile', w)
  /\ reqs' = Arrive([(IF w = "ok" THEN Respond(c, 200, <<>>) ELSE Respond(c, 500, <<>>))
                        EXCEPT ![c].op = "profile", ![c].updates = updates,
                               ![c].profile = IF w = "ok" THEN financialProfile' ELSE <<>>],
                     c, ~initialized)
  /\ UNCHANGED <<restarts, now, wfVars>>

\* GET /profile (UserSession.ts:94-120, 259-264)
GetProfile(c) ==
  /\ CanArrive(c)
  /\ initialized' = InitializedAfterLoad
  /\ chatHistory' = LoadedHistory
  /\ financialProfile' = LoadedProfile
  /\ reqs' = Arrive([Respond(c, 200, <<>>) EXCEPT ![c].op = "getProfile",
                                                    ![c].profile = LoadedProfile],
                     c, ~initialized)
  /\ UNCHANGED <<storage, restarts, now, wfVars>>

BriefingTexts == { <<"X">>, <<>> }
IdempotencyKeys == { "W1" }

\* UserSession.ts:284  the marker, then the briefing
BriefingContent(briefing) == <<BriefingMarker>> \o briefing

\* POST /inject-briefing (UserSession.ts:94-125, 270-295).  The body's
\* idempotencyKey is not read by the handler.
InjectBriefing(c, briefing, key, w) ==
  /\ CanArrive(c)
  /\ initialized' = InitializedAfterLoad
  /\ financialProfile' = LoadedProfile
  /\ IF briefing = <<>>
       THEN /\ chatHistory' = LoadedHistory
            /\ storage' = storage
            /\ reqs' = Arrive([Respond(c, 400, <<>>) EXCEPT ![c].op = "inject",
                                  ![c].briefing = briefing, ![c].idempotencyKey = key],
                               c, ~initialized)
       ELSE /\ chatHistory' = Append(LoadedHistory,
                                ChatMessage("assistant", BriefingContent(briefing), now, c))
            /\ storage' = SaveState(chatHistory', financialProfile', w)
            /\ reqs' = Arrive([(IF w = "ok" THEN Respond(c, 200, <<>>)
                                              ELSE Respond(c, 500, <<>>))
                                  EXCEPT ![c].op = "inject", ![c].briefing = briefing,
                                         ![c].idempotencyKey = key],
                               c, ~initialized)
  /\ UNCHANGED <<restarts, now, wfVars>>

\* POST /clear (UserSession.ts:94-130, 300-308)
ClearHistory(c, w) ==
  /\ CanArrive(c)
  /\ initialized' = InitializedAfterLoad
  /\ financialProfile' = LoadedProfile
  /\ chatHistory' = <<>>
  /\ storage' = SaveState(chatHistory', financialProfile', w)
  /\ reqs' = Arrive([(IF w = "ok" THEN Respond(c, 200, <<>>) ELSE Respond(c, 500, <<>>))
                        EXCEPT ![c].op = "clear"],
                     c, ~initialized)
  /\ UNCHANGED <<restarts, now, wfVars>>

\* Any other method and path (UserSession.ts:94-100, 132)
NotFound(c) ==
  /\ CanArrive(c)
  /\ initialized' = InitializedAfterLoad
  /\ chatHistory' = LoadedHistory
  /\ financialProfile' = LoadedProfile
  /\ reqs' = Arrive([Respond(c, 404, <<>>) EXCEPT ![c].op = "unknown"], c, ~initialized)
  /\ UNCHANGED <<storage, restarts, now, wfVars>>

\* The object is evicted or its process restarts: the fields are those of a
\* newly constructed object (UserSession.ts:56-58), requests in flight get
\* no response, storage stays.
Restart ==
  /\ restarts < MaxRestarts
  /\ restarts' = restarts + 1
  /\ chatHistory' = <<>>
  /\ financialProfile' = <<>>
  /\ initialized' = FALSE
  /\ reqs' = [c \in Calls |->
                IF reqs[c].pc = "ai"
                  THEN [reqs[c] EXCEPT !.pc = "lost", !.context = <<>>, !.seen = <<>>]
                  ELSE reqs[c]]
  /\ UNCHANGED <<storage, now, wfVars>>

\* ------------------------------------------------- UserSession (backend)
\* backend UserSession.ts:68
MorningMarker == "Morning Briefing: "

\* initialize(): loads when the in-memory history is empty (backend UserSession.ts:23-27)
BackendLoadedHistory ==
  IF history # <<>> THEN history
  ELSE IF "history" \in DOMAIN storage THEN storage["history"] ELSE <<>>

\* backend UserSession.ts:66-70
BackendBriefingMessage(text, id) == ChatMessage("assistant", <<MorningMarker>> \o text, now, id)

\* backend UserSession.ts:51
SorryText == <<"Sorry, I could not generate a response.">>

\* backend UserSession.ts:51  aiResp.response || 'Sorry, ...'
BackendContent(ai) ==
  IF "response" \in DOMAIN ai /\ ai["response"] # <<>> THEN ai["response"] ELSE SorryText

PutOutcomes == {"ok", "fail"}

\* backend UserSession.ts:42
BackendSystemPrompt == <<"You are a financial coach for students">>

\* backend UserSession.ts:43-46  the messages handed to runLLM
BackendContextMessages(h) ==
  <<[role |-> "system", content |-> BackendSystemPrompt, profiled |-> FALSE]>>
  \o [i \in 1..Len(SliceLast(h, RecentLimit)) |->
        [role |-> SliceLast(h, RecentLimit)[i].role,
         content |-> SliceLast(h, RecentLimit)[i].content,
         profiled |-> FALSE]]

\* POST /chat up to the await of runLLM (backend UserSession.ts:29-48): the
\* message is pushed as it came, untrimmed and unchecked.
BackendChatStart(c, text) ==
  /\ CanArrive(c)
  /\ history' = Append(BackendLoadedHistory, ChatMessage("user", text, now, c))
  /\ reqs' = Arrive([reqs EXCEPT ![c].op = "chat", ![c].message = text, ![c].pc = "ai",
                                  ![c].context = BackendContextMessages(history'),
                                  ![c].seen = BackendLoadedHistory],
                     c, history = <<>>)
  /\ UNCHANGED <<chatHistory, financialProfile, initialized, restarts, storage, now,
                 instances, stepResults, failures, run, executions, crashes, ui>>

\* runLLM resolves (backend UserSession.ts:49-57).  fetch has no catch: a put
\* that rejects leaves it as an exception, which the caller sees as a failure.
BackendChatReply(c, ai, w) ==
  /\ reqs[c].pc = "ai"
  /\ LET assistantMsg == ChatMessage("assistant", BackendContent(ai), now, c)
     IN /\ history' = Append(history, assistantMsg)
        /\ storage' = IF w = "ok" THEN Put(storage, "history", history') ELSE storage
        /\ reqs' = IF w = "ok" THEN Respond(c, 200, <<assistantMsg>>)
                   ELSE Respond(c, 500, <<>>)
  /\ UNCHANGED <<chatHistory, financialProfile, initialized, restarts, now,
                 instances, stepResults, failures, run, executions, crashes, ui>>

\* runLLM rejects (backend UserSession.ts:48, llm.ts:2-7): the exception leaves fetch
BackendChatThrows(c) ==
  /\ reqs[c].pc = "ai"
  /\ reqs' = [Respond(c, 500, <<>>) EXCEPT ![c].aiFailed = TRUE]
  /\ UNCHANGED <<chatHistory, financialProfile, initialized, restarts, storage, now, wfVars>>

\* GET /history (backend UserSession.ts:29-31, 60-62)
BackendGetHistory(c) ==
  /\ CanArrive(c)
  /\ history' = BackendLoadedHistory
  /\ reqs' = Arrive([Respond(c, 200, BackendLoadedHistory) EXCEPT ![c].op = "history"],
                     c, history = <<>>)
  /\ UNCHANGED <<chatHistory, financialProfile, initialized, restarts, storage, now,
                 instances, stepResults, failures, run, executions, crashes, ui>>

\* POST /injectBriefing (backend UserSession.ts:29-31, 64-74)
BackendInjectBriefing(c, text, key, w) ==
  /\ CanArrive(c)
  /\ history' = Append(BackendLoadedHistory, BackendBriefingMessage(text, c))
  /\ storage' = IF w = "ok" THEN Put(storage, "history", history') ELSE storage
  /\ reqs' = Arrive([(IF w = "ok" THEN Respond(c, 200, <<>>) ELSE Respond(c, 500, <<>>))
                        EXCEPT ![c].op = "inject", ![c].briefing = text,
                               ![c].idempotencyKey = key],
                     c, history = <<>>)
  /\ UNCHANGED <<chatHistory, financialProfile, initialized, restarts, now,
                 instances, stepResults, failures, run, executions, crashes, ui>>

\* Any other method and path (backend UserSession.ts:29-31, 76)
BackendNotFound(c) ==
  /\ CanArrive(c)
  /\ history' = BackendLoadedHistory
  /\ reqs' = Arrive([Respond(c, 404, <<>>) EXCEPT ![c].op = "unknown"], c, history = <<>>)
  /\ UNCHANGED <<chatHistory, financialProfile, initialized, restarts, storage, now,
                 instances, stepResults, failures, run, executions, crashes, ui>>

\* The backend actor's process restarts: its in-memory history is that of a
\* newly constructed object (backend UserSession.ts:16), requests in flight
\* get no response, storage stays.
BackendRestart ==
  /\ restarts < MaxRestarts
  /\ restarts' = restarts + 1
  /\ history' = <<>>
  /\ reqs' = [c \in Calls |->
                IF reqs[c].pc = "ai"
                  THEN [reqs[c] EXCEPT !.pc = "lost", !.context = <<>>, !.seen = <<>>]
                  ELSE reqs[c]]
  /\ UNCHANGED <<chatHistory, financialProfile, initialized, storage, now,
                 instances, stepResults, failures, run, executions, crashes, ui>>

\* --------------------------------------------------------- BriefingWorkflow
\* BriefingWorkflow.ts:10-14
MockNews ==
  <<"Interest rates dropped by 0.25%", "Student loan forgiveness program expanded",
    "Part-time job market is growing">>

\* BriefingWorkflow.ts:23
NoSummaryText == <<"No summary generated.">>

\* BriefingWorkflow.ts:38
RunOutput == "Briefing complete"

\* The replies of runLLM (llm.ts:2-7) that carry a response; it may also reject.
LlmReplies == { [response |-> <<"summary">>], [response |-> <<>>] }

\* Mutant of AfterStep: run() returns after analyze-news and never calls
\* step.do('inject-briefing').
AfterStepSkipsInject(s) ==
  CASE s = "fetch-news"      -> "analyze-news"
    [] s = "analyze-news"    -> "return"
    [] s = "inject-briefing" -> "return"

\* Mutant of AfterStep: run() starts over after inject-briefing instead of
\* returning.
AfterStepLoops(s) ==
  CASE s = "fetch-news"      -> "analyze-news"
    [] s = "analyze-news"    -> "inject-briefing"
    [] s = "inject-briefing" -> "fetch-news"

\* The order of the step.do calls in run() (BriefingWorkflow.ts:10, 17, 27, 38)
AfterStep(s) ==
  CASE s = "fetch-news"      -> "analyze-news"
    [] s = "analyze-news"    -> "inject-briefing"
    [] s = "inject-briefing" -> "return"

StepNames == {"fetch-news", "analyze-news", "inject-briefing"}

\* No execution of run().  cached is instrumentation: the steps whose stored
\* output this execution of run() was handed instead of entering the body.
NoRun ==
  [pc |-> "idle", phase |-> "body", news |-> <<>>, summary |-> <<>>, pending |-> <<>>,
   cached |-> {}, generated |-> <<>>]

NoInstance == [status |-> "none", output |-> "", error |-> "", params |-> <<>>]

\* Mutant of Bind: run() does not keep the value step.do('analyze-news')
\* returns and goes on with a summary of its own.
BindRecomputed(r, s, v) ==
  CASE s = "fetch-news"      -> [r EXCEPT !.news = v]
    [] s = "analyze-news"    -> [r EXCEPT !.summary = NoSummaryText]
    [] s = "inject-briefing" -> r

\* run() binds the value step.do returns: news (line 10), summary (line 17)
Bind(r, s, v) ==
  CASE s = "fetch-news"      -> [r EXCEPT !.news = v]
    [] s = "analyze-news"    -> [r EXCEPT !.summary = v]
    [] s = "inject-briefing" -> r

\* index.ts:154-163  BRIEFING_WORKFLOW.create({ params }): the instance is
\* recorded as running and run() starts on its own.
Create(i) ==
  /\ instances[i].status = "none"
  /\ \A j \in 1..(i - 1) : instances[j].status # "none"
  /\ instances' = [instances EXCEPT ![i].status = "running",
                                    ![i].params = [userId |-> "default-user"]]
  /\ run' = [run EXCEPT ![i] = [NoRun EXCEPT !.pc = "fetch-news"]]
  /\ UNCHANGED <<history, stepResults, failures, executions, crashes, storage, now, actorVars>>

\* The users a briefing may be asked for
UserIds == {"default-user", "alice"}

\* BriefingWorkflow.ts:28  idFromName('default-user'): the actor that the
\* inject-briefing step addresses, whose history is the variable history
InjectTarget == "default-user"

\* create({ params: { userId } }) of the engine for a user of the caller's
\* choice (BriefingWorkflow.ts:7-8 declares the parameter)
CreateFor(i, u) ==
  /\ instances[i].status = "none"
  /\ \A j \in 1..(i - 1) : instances[j].status # "none"
  /\ instances' = [instances EXCEPT ![i].status = "running", ![i].params = [userId |-> u]]
  /\ run' = [run EXCEPT ![i] = [NoRun EXCEPT !.pc = "fetch-news"]]
  /\ UNCHANGED <<history, stepResults, failures, executions, crashes, storage, now, actorVars>>

\* step.do(name, ...) finds a StepResult for the name: the stored output is
\* returned and the body is not entered.
StepCached(i) ==
  /\ run[i].pc \in StepNames
  /\ run[i].phase = "body"
  /\ run[i].pc \in DOMAIN stepResults[i]
  /\ run' = [run EXCEPT ![i] = [Bind(run[i], run[i].pc, stepResults[i][run[i].pc].output)
                                  EXCEPT !.pc = AfterStep(run[i].pc),
                                         !.cached = @ \cup {run[i].pc}]]
  /\ UNCHANGED <<history, instances, stepResults, failures, executions, crashes, storage, now, actorVars>>

\* The body of a step is entered only when step.do finds no StepResult.
CanEnterBody(i, s) ==
  /\ instances[i].status = "running"
  /\ run[i].pc = s
  /\ run[i].phase = "body"
  /\ s \notin DOMAIN stepResults[i]

Entered(i, s) == [executions EXCEPT ![i][s] = @ + 1]

\* The body of a step threw: the engine counts the attempt and tries again,
\* or gives up, and then the error leaves run() and the instance is errored.
Thrown(i, s, err) ==
  /\ failures' = [failures EXCEPT ![i][s] = @ + 1]
  /\ IF failures[i][s] + 1 >= MaxAttempts
       THEN /\ instances' = [instances EXCEPT ![i].status = "errored", ![i].error = err]
            /\ run' = [run EXCEPT ![i] = [NoRun EXCEPT !.pc = "end"]]
       ELSE UNCHANGED <<instances, run>>

\* The body of a step returned v: the engine is about to write the StepResult.
Returned(i, v) == run' = [run EXCEPT ![i].phase = "commit", ![i].pending = v]

\* Mutant of FetchNewsBody: the news is fetched in run() itself, outside
\* step.do, so every execution of run() fetches it again.
FetchNewsInline(i) ==
  /\ instances[i].status = "running"
  /\ run[i].pc = "fetch-news"
  /\ run[i].phase = "body"
  /\ executions' = Entered(i, "fetch-news")
  /\ Returned(i, MockNews)
  /\ UNCHANGED <<history, instances, stepResults, failures, crashes, storage, now, actorVars>>

\* Mutant of FetchNewsBody: run() does not await step.do('fetch-news') and
\* goes on to the next step.do while the StepResult is still to be written.
FetchNewsNotAwaited(i) ==
  /\ CanEnterBody(i, "fetch-news")
  /\ executions' = Entered(i, "fetch-news")
  /\ run' = [run EXCEPT ![i].pc = "analyze-news", ![i].news = MockNews]
  /\ UNCHANGED <<history, instances, stepResults, failures, crashes, storage, now, actorVars>>

\* BriefingWorkflow.ts:10-14  the body of fetch-news
FetchNewsBody(i) ==
  /\ CanEnterBody(i, "fetch-news")
  /\ executions' = Entered(i, "fetch-news")
  /\ Returned(i, MockNews)
  /\ UNCHANGED <<history, instances, stepResults, failures, crashes, storage, now, actorVars>>

\* Mutant of SummaryOf: the step returns the default text whatever runLLM
\* resolved with.
SummaryIgnored(resp) == NoSummaryText

\* BriefingWorkflow.ts:23  resp.response || 'No summary generated.'
SummaryOf(resp) == IF resp["response"] = <<>> THEN NoSummaryText ELSE resp["response"]

\* BriefingWorkflow.ts:17-24  the body of analyze-news, runLLM resolving.
\* Instrumentation: generated, the text runLLM resolved with, kept until the
\* StepResult is written.
AnalyzeNewsBody(i, resp) ==
  /\ CanEnterBody(i, "analyze-news")
  /\ executions' = Entered(i, "analyze-news")
  /\ run' = [run EXCEPT ![i].phase = "commit", ![i].pending = SummaryOf(resp),
                        ![i].generated = resp["response"]]
  /\ UNCHANGED <<history, instances, stepResults, failures, crashes, storage, now, actorVars>>

\* Mutant of AnalyzeNewsThrows: run() catches the error of the step and goes
\* on to inject-briefing with the default summary.
AnalyzeNewsSwallowed(i) ==
  /\ CanEnterBody(i, "analyze-news")
  /\ executions' = Entered(i, "analyze-news")
  /\ failures' = [failures EXCEPT ![i]["analyze-news"] = @ + 1]
  /\ run' = IF failures[i]["analyze-news"] + 1 >= MaxAttempts
              THEN [run EXCEPT ![i].pc = "inject-briefing", ![i].summary = NoSummaryText]
              ELSE run
  /\ UNCHANGED <<history, instances, stepResults, crashes, storage, now, actorVars>>

\* BriefingWorkflow.ts:17-24  the body of analyze-news, runLLM rejecting
AnalyzeNewsThrows(i) ==
  /\ CanEnterBody(i, "analyze-news")
  /\ executions' = Entered(i, "analyze-news")
  /\ Thrown(i, "analyze-news", "InferenceError")
  /\ UNCHANGED <<history, stepResults, crashes, storage, now, actorVars>>

\* BriefingWorkflow.ts:27-36  the body of inject-briefing: the request
\* { text: summary } to /injectBriefing of the actor 'default-user', which
\* pushes the briefing and puts the history (backend UserSession.ts:29-31,
\* 64-74); the response is not read and the body returns true.
InjectBriefingBody(i) ==
  /\ CanEnterBody(i, "inject-briefing")
  /\ executions' = Entered(i, "inject-briefing")
  /\ history' = Append(BackendLoadedHistory, BackendBriefingMessage(run[i].summary, i))
  /\ storage' = Put(storage, "history", history')
  /\ Returned(i, TRUE)
  /\ UNCHANGED <<instances, stepResults, failures, crashes, now, actorVars>>

\* The same body when the actor's put rejects: fetch of the actor has no
\* catch, so stub.fetch rejects and the body throws after the push.
InjectBriefingThrows(i) ==
  /\ CanEnterBody(i, "inject-briefing")
  /\ executions' = Entered(i, "inject-briefing")
  /\ history' = Append(BackendLoadedHistory, BackendBriefingMessage(run[i].summary, i))
  /\ Thrown(i, "inject-briefing", "StorageError")
  /\ UNCHANGED <<stepResults, crashes, storage, now, actorVars>>

\* BriefingWorkflow.ts:27-36 with USER_SESSION bound to the actor of
\* src/src/UserSession.ts: that actor loads its state (94-95), has no route
\* '/injectBriefing' (its route is '/inject-briefing', line 123) and answers
\* 404 (136); the response is not read and the body returns true.
InjectBriefingNotFound(i) ==
  /\ CanEnterBody(i, "inject-briefing")
  /\ executions' = Entered(i, "inject-briefing")
  /\ chatHistory' = LoadedHistory
  /\ financialProfile' = LoadedProfile
  /\ initialized' = TRUE
  /\ Returned(i, TRUE)
  /\ UNCHANGED <<history, instances, stepResults, failures, crashes, storage, now,
                 reqs, restarts, ui>>

\* The engine writes the StepResult of the body that returned; step.do
\* returns its value to run().
StepCommit(i) ==
  /\ instances[i].status = "running"
  /\ run[i].pc \in StepNames
  /\ run[i].phase = "commit"
  /\ stepResults' = [stepResults EXCEPT ![i] =
        Put(@, run[i].pc, [output |-> run[i].pending, attempts |-> failures[i][run[i].pc] + 1])]
  /\ run' = [run EXCEPT ![i] = [Bind(run[i], run[i].pc, run[i].pending)
                                  EXCEPT !.pc = AfterStep(run[i].pc), !.phase = "body",
                                         !.pending = <<>>, !.generated = <<>>]]
  /\ UNCHANGED <<history, instances, failures, executions, crashes, storage, now, actorVars>>

\* BriefingWorkflow.ts:38  run() returns: the instance is complete
RunReturns(i) ==
  /\ instances[i].status = "running"
  /\ run[i].pc = "return"
  /\ instances' = [instances EXCEPT ![i].status = "complete", ![i].output = RunOutput]
  /\ run' = [run EXCEPT ![i] = [NoRun EXCEPT !.pc = "end"]]
  /\ UNCHANGED <<history, stepResults, failures, executions, crashes, storage, now, actorVars>>

\* The engine's process restarts: every live execution of run() is gone with
\* its locals; the instance records and the StepResults stay.
EngineCrash ==
  /\ crashes < MaxCrashes
  /\ \E i \in Instances : instances[i].status # "none"
  /\ crashes' = crashes + 1
  /\ run' = [i \in Instances |->
               IF instances[i].status # "none" THEN [NoRun EXCEPT !.pc = "down"] ELSE run[i]]
  /\ UNCHANGED <<history, instances, stepResults, failures, executions, storage, now, actorVars>>

\* Mutant of Resume: after a restart the engine runs every instance it knows
\* again, finished or not, and marks it running.
ResumeAny(i) ==
  /\ run[i].pc = "down"
  /\ instances' = [instances EXCEPT ![i].status = "running"]
  /\ run' = [run EXCEPT ![i] = [NoRun EXCEPT !.pc = "fetch-news"]]
  /\ UNCHANGED <<history, stepResults, failures, executions, crashes, storage, now, actorVars>>

\* The engine runs run() of a running instance again, from its first line.
Resume(i) ==
  /\ instances[i].status = "running"
  /\ run[i].pc = "down"
  /\ run' = [run EXCEPT ![i] = [NoRun EXCEPT !.pc = "fetch-news"]]
  /\ UNCHANGED <<history, instances, stepResults, failures, executions, crashes, storage, now, actorVars>>

\* ------------------------------------------------------- specifications
\* A newly created actor: nothing stored, nothing loaded
ActorInit ==
  /\ chatHistory = <<>>
  /\ financialProfile = <<>>
  /\ initialized = FALSE
  /\ storage = <<>>
  /\ reqs = [c \in Calls |-> NewRequest]
  /\ restarts = 0
  /\ now = 0

WorkflowInit ==
  /\ history = <<>>
  /\ instances = [i \in Instances |-> NoInstance]
  /\ stepResults = [i \in Instances |-> <<>>]
  /\ failures = [i \in Instances |-> [s \in StepNames |-> 0]]
  /\ run = [i \in Instances |-> NoRun]
  /\ executions = [i \in Instances |-> [s \in StepNames |-> 0]]
  /\ crashes = 0

\* Chat.tsx:28-32  the state of the component when it is created; message
\* is the local of sendMessage (line 73).  Instrumentation: sends, triggers
\* and fetches count the requests the page has sent; briefing is the
\* position of triggerBriefing.
NoUi ==
  [messages |-> <<>>, inputValue |-> <<>>, isLoading |-> FALSE,
   isBriefingLoading |-> FALSE, error |-> FALSE, message |-> <<>>,
   sends |-> 0, triggers |-> 0, fetches |-> 0, briefing |-> "idle"]

Init == ActorInit /\ WorkflowInit /\ ui = NoUi

Next ==
  \/ \E c \in Calls, text \in ChatTexts : HandleChatStart(c, text)
  \/ \E c \in Calls, ai \in AiReplies, w \in SaveOutcomes : HandleChatReply(c, ai, w)
  \/ \E c \in Calls : HandleChatAiThrows(c)
  \/ \E c \in Calls : GetHistory(c)
  \/ \E c \in Calls, u \in ProfileUpdates, w \in SaveOutcomes : UpdateProfile(c, u, w)
  \/ \E c \in Calls : GetProfile(c)
  \/ \E c \in Calls, b \in BriefingTexts, k \in IdempotencyKeys, w \in SaveOutcomes :
       InjectBriefing(c, b, k, w)
  \/ \E c \in Calls, w \in SaveOutcomes : ClearHistory(c, w)
  \/ \E c \in Calls : NotFound(c)
  \/ Restart

Spec == Init /\ [][Next]_vars

\* The backend actor alone, under requests, rejected puts and restarts
BackendNext ==
  \/ \E c \in Calls, text \in ChatTexts : BackendChatStart(c, text)
  \/ \E c \in Calls, ai \in AiReplies, w \in PutOutcomes : BackendChatReply(c, ai, w)
  \/ \E c \in Calls : BackendChatThrows(c)
  \/ \E c \in Calls : BackendGetHistory(c)
  \/ \E c \in Calls, b \in BriefingTexts, k \in IdempotencyKeys, w \in PutOutcomes :
       BackendInjectBriefing(c, b, k, w)
  \/ \E c \in Calls : BackendNotFound(c)
  \/ BackendRestart

BackendSpec == Init /\ [][BackendNext]_vars

\* The workflow with the backend actor it injects into, while the actor's
\* process stays up and its store accepts every put
WorkflowNext ==
  \/ \E i \in Instances : Create(i)
  \/ \E i \in Instances : StepCached(i)
  \/ \E i \in Instances : FetchNewsBody(i)
  \/ \E i \in Instances, resp \in LlmReplies : AnalyzeNewsBody(i, resp)
  \/ \E i \in Instances : AnalyzeNewsThrows(i)
  \/ \E i \in Instances : InjectBriefingBody(i)
  \/ \E i \in Instances : StepCommit(i)
  \/ \E i \in Instances : RunReturns(i)
  \/ EngineCrash
  \/ \E i \in Instances : Resume(i)

WorkflowSpec == Init /\ [][WorkflowNext]_vars

\* The workflow started for any user
ParamsNext ==
  \/ \E i \in Instances, u \in UserIds : CreateFor(i, u)
  \/ \E i \in Instances : StepCached(i)
  \/ \E i \in Instances : FetchNewsBody(i)
  \/ \E i \in Instances, resp \in LlmReplies : AnalyzeNewsBody(i, resp)
  \/ \E i \in Instances : AnalyzeNewsThrows(i)
  \/ \E i \in Instances : InjectBriefingBody(i)
  \/ \E i \in Instances : StepCommit(i)
  \/ \E i \in Instances : RunReturns(i)
  \/ EngineCrash
  \/ \E i \in Instances : Resume(i)

ParamsSpec == Init /\ [][ParamsNext]_vars

\* The workflow with the backend actor, whose store may reject a put
FailureNext ==
  \/ WorkflowNext
  \/ \E i \in Instances : InjectBriefingThrows(i)

FailureSpec == Init /\ [][FailureNext]_vars

\* The workflow with the actor of src/src/UserSession.ts as its target
RootTargetNext ==
  \/ \E i \in Instances : Create(i)
  \/ \E i \in Instances : StepCached(i)
  \/ \E i \in Instances : FetchNewsBody(i)
  \/ \E i \in Instances, resp \in LlmReplies : AnalyzeNewsBody(i, resp)
  \/ \E i \in Instances : AnalyzeNewsThrows(i)
  \/ \E i \in Instances : InjectBriefingNotFound(i)
  \/ \E i \in Instances : StepCommit(i)
  \/ \E i \in Instances : RunReturns(i)
  \/ EngineCrash
  \/ \E i \in Instances : Resume(i)

RootTargetSpec == Init /\ [][RootTargetNext]_vars

\* The clock advances between two readings of new Date()
Tick ==
  /\ now < MaxTicks
  /\ now' = now + 1
  /\ UNCHANGED <<storage, actorVars, wfVars>>

\* A time before every reading of the clock, as a caller may put it into the
\* lastUpdated of its request
StaleTime == 0 - 1

\* The bodies of POST /profile: a Partial<FinancialProfile>, which may carry
\* lastUpdated (UserSession.ts:32-39, 239)
ProfilePartials == ProfileUpdates \cup { [monthlyIncome |-> 900, lastUpdated |-> StaleTime] }

\* The profile operations of the root actor while the clock advances
ProfileNext ==
  \/ \E c \in Calls, u \in ProfilePartials, w \in SaveOutcomes : UpdateProfile(c, u, w)
  \/ \E c \in Calls : GetProfile(c)
  \/ Tick
  \/ Restart

ProfileSpec == Init /\ [][ProfileNext]_vars

\* The clock advances while a sendMessage awaits AI.run.  Only the two
\* readings of one call are compared, so between calls the clock is left
\* as it stands.
TickDuringAiRun ==
  /\ \E c \in Calls : reqs[c].pc = "ai"
  /\ Tick

\* What the store does to the saveState of a sendMessage in ChatSpec: both
\* puts succeed, or the first rejects
ChatSaveOutcomes == {"ok", "fail1"}

\* sendMessage and getHistory of the root actor, in one process, while the
\* clock advances
ChatNext ==
  \/ \E c \in Calls, text \in ChatTexts : HandleChatStart(c, text)
  \/ \E c \in Calls, ai \in AiReplies, w \in ChatSaveOutcomes : HandleChatReply(c, ai, w)
  \/ \E c \in Calls : HandleChatAiThrows(c)
  \/ \E c \in Calls : GetHistory(c)
  \/ TickDuringAiRun

ChatSpec == Init /\ [][ChatNext]_vars

\* sendMessage and injectBriefing of the root actor, in one process, under
\* a clock that advances at any moment
TimeNext ==
  \/ \E c \in Calls, text \in ChatTexts : HandleChatStart(c, text)
  \/ \E c \in Calls, ai \in AiReplies : HandleChatReply(c, ai, "ok")
  \/ \E c \in Calls : HandleChatAiThrows(c)
  \/ \E c \in Calls, b \in BriefingTexts, k \in IdempotencyKeys :
       InjectBriefing(c, b, k, "ok")
  \/ Tick

TimeSpec == Init /\ [][TimeNext]_vars

\* UserSession.ts:187-196  while AI.run is awaited time goes on, and no timer
\* is set that would end the await; whether AI.run ever settles is up to
\* the model service.
ChatFairness == WF_vars(TickDuringAiRun)

ChatFairSpec == Init /\ [][ChatNext]_vars /\ ChatFairness

\* The contents of the messages of earlier conversations, one per place
OldTexts ==
  <<"m01", "m02", "m03", "m04", "m05", "m06", "m07", "m08", "m09", "m10", "m11", "m12", "m13", "m14", "m15", "m16", "m17", "m18", "m19", "m20", "m21", "m22", "m23", "m24", "m25", "m26">>

\* A history of n messages left in storage by earlier processes: user and
\* assistant messages in turn, each with a content of its own
OldHistory(n) ==
  [k \in 1..n |-> ChatMessage(IF k % 2 = 1 THEN "user" ELSE "assistant", <<OldTexts[k]>>, 0, 0)]

\* The lengths of the stored history around the limit of the context
OldLengths == {0} \cup ((RecentLimit - 2)..(RecentLimit + MaxBeyond))

\* An actor whose storage holds a history of earlier conversations
ContextInit ==
  /\ chatHistory = <<>>
  /\ financialProfile = <<>>
  /\ initialized = FALSE
  /\ \E n \in OldLengths :
       storage = IF n = 0 THEN <<>> ELSE [chatHistory |-> OldHistory(n), financialProfile |-> <<>>]
  /\ reqs = [c \in Calls |-> NewRequest]
  /\ restarts = 0
  /\ now = 0
  /\ WorkflowInit
  /\ ui = NoUi

\* sendMessage and updateProfile of the root actor on such a history
ContextNext ==
  \/ \E c \in Calls, text \in ChatTexts : HandleChatStart(c, text)
  \/ \E c \in Calls, ai \in AiReplies, w \in ChatSaveOutcomes : HandleChatReply(c, ai, w)
  \/ \E c \in Calls : HandleChatAiThrows(c)
  \/ \E c \in Calls, u \in ProfileUpdates : UpdateProfile(c, u, "ok")

ContextSpec == ContextInit /\ [][ContextNext]_vars

\* An id no instance has
NoSuchId == 0

\* The ids a caller may ask the status of
AskedIds == Instances \cup {NoSuchId}

\* A create() that hands out the first id again
TriggerBriefingReusesId(c, i) ==
  /\ CanArrive(c)
  /\ i = 1
  /\ instances' = [instances EXCEPT ![i].status = "running",
                                    ![i].params = [userId |-> "default-user"]]
  /\ run' = [run EXCEPT ![i] = [NoRun EXCEPT !.pc = "fetch-news"]]
  /\ reqs' = [Respond(c, 200, <<[success |-> TRUE]>>)
                EXCEPT ![c].op = "trigger", ![c].instanceId = i]
  /\ UNCHANGED <<chatHistory, financialProfile, initialized, restarts, storage, now,
                 history, stepResults, failures, executions, crashes, ui>>

\* index.ts:154-177  POST /api/trigger-briefing: create() records the
\* instance as running and run() starts on its own; the route answers with
\* the id of the instance.
TriggerBriefing(c, i) ==
  /\ CanArrive(c)
  /\ instances[i].status = "none"
  /\ \A j \in 1..(i - 1) : instances[j].status # "none"
  /\ instances' = [instances EXCEPT ![i].status = "running",
                                    ![i].params = [userId |-> "default-user"]]
  /\ run' = [run EXCEPT ![i] = [NoRun EXCEPT !.pc = "fetch-news"]]
  /\ reqs' = [Respond(c, 200, <<[success |-> TRUE]>>)
                EXCEPT ![c].op = "trigger", ![c].instanceId = i]
  /\ UNCHANGED <<chatHistory, financialProfile, initialized, restarts, storage, now,
                 history, stepResults, failures, executions, crashes, ui>>

\* index.ts:168-176  create() rejects: the catch of the route answers 500
TriggerFails(c) ==
  /\ CanArrive(c)
  /\ reqs' = [Respond(c, 500, <<[success |-> FALSE, error |-> "Failed to trigger workflow"]>>)
                EXCEPT ![c].op = "trigger", ![c].aiFailed = TRUE]
  /\ UNCHANGED <<chatHistory, financialProfile, initialized, restarts, storage, now, wfVars>>

\* index.ts:196-202  the catch of the status route
StatusFailure == <<[success |-> FALSE, error |-> "Failed to get workflow status"]>>

\* index.ts:184-203  GET /api/workflow-status/:instanceId.  For an id no
\* instance has, get() or status() rejects, and the catch answers.
GetStatus(c, id) ==
  /\ CanArrive(c)
  /\ LET found == id \in Instances /\ instances[id].status # "none"
     IN reqs' = [(IF found
                    THEN Respond(c, 200, <<[status |-> instances[id].status,
                                            output |-> instances[id].output,
                                            error |-> instances[id].error]>>)
                    ELSE Respond(c, 500, StatusFailure))
                   EXCEPT ![c].op = "status", ![c].instanceId = id, ![c].known = found]
  /\ UNCHANGED <<chatHistory, financialProfile, initialized, restarts, storage, now, wfVars>>

\* index.ts:184-203  the same route when status() of an instance that
\* exists rejects for another reason: the same catch answers.
GetStatusThrows(c, id) ==
  /\ CanArrive(c)
  /\ id \in Instances /\ instances[id].status # "none"
  /\ reqs' = [Respond(c, 500, StatusFailure)
                EXCEPT ![c].op = "status", ![c].instanceId = id, ![c].known = TRUE,
                       ![c].aiFailed = TRUE]
  /\ UNCHANGED <<chatHistory, financialProfile, initialized, restarts, storage, now, wfVars>>

\* The reply of runLLM in the specification of termination: which text it
\* carries does not decide which step comes next, so one text stands for all.
FairReplies == { [response |-> <<"summary">>] }

\* One step of instance i: a cached result handed out, a body run, a
\* StepResult written, run() returning, run() started again after a restart
RunStep(i) ==
  \/ StepCached(i)
  \/ FetchNewsBody(i)
  \/ \E resp \in FairReplies : AnalyzeNewsBody(i, resp)
  \/ AnalyzeNewsThrows(i)
  \/ InjectBriefingBody(i)
  \/ StepCommit(i)
  \/ RunReturns(i)
  \/ Resume(i)

FairNext ==
  \/ \E i \in Instances : Create(i)
  \/ \E i \in Instances : RunStep(i)
  \/ EngineCrash

\* The engine keeps every instance going: an instance that can take a step
\* takes one.  Nothing makes runLLM resolve rather than reject, and nothing
\* makes a trigger or an engine restart happen.
WorkflowFairness == \A i \in Instances : WF_vars(RunStep(i))

WorkflowFairSpec == Init /\ [][FairNext]_vars /\ WorkflowFairness

\* The workflow routes of the worker and the instances they start, while
\* the engine's process stays up
StatusNext ==
  \/ \E i \in Instances : Create(i)
  \/ \E c \in Calls, i \in Instances : TriggerBriefing(c, i)
  \/ \E c \in Calls : TriggerFails(c)
  \/ \E c \in Calls, id \in AskedIds : GetStatus(c, id)
  \/ \E c \in Calls, id \in AskedIds : GetStatusThrows(c, id)
  \/ \E i \in Instances : FetchNewsBody(i)
  \/ \E i \in Instances, resp \in FairReplies : AnalyzeNewsBody(i, resp)
  \/ \E i \in Instances : AnalyzeNewsThrows(i)
  \/ \E i \in Instances : InjectBriefingBody(i)
  \/ \E i \in Instances : StepCommit(i)
  \/ \E i \in Instances : RunReturns(i)

StatusSpec == Init /\ [][StatusNext]_vars

\* ------------------------------------------------------ the chat page
\* The requests of the kinds the page sends that have reached the actor
ChatCalls == { c \in Calls : reqs[c].op = "chat" }

HistoryCalls == { c \in Calls : reqs[c].op = "history" }

Created == { i \in Instances : instances[i].status # "none" }

\* Instrumentation: the send of the page that request c carried, 0 for none
SendOf(c) ==
  IF c \in ChatCalls THEN Cardinality({ d \in 1..c : reqs[d].op = "chat" }) ELSE 0

\* The request that carried the k-th send of the page
ChatCallOf(k) == CHOOSE c \in ChatCalls : SendOf(c) = k

\* The history request sent last
LastHistoryCall == CHOOSE c \in HistoryCalls : \A d \in HistoryCalls : d <= c

\* A message as the page holds it (Chat.tsx:18-22).  send is
\* instrumentation: the send of the page the message stems from.
UiMessage(r, c, t, k) == [role |-> r, content |-> c, timestamp |-> t, send |-> k]

\* data.history as the page holds it (Chat.tsx:58-59)
UiMessages(h) ==
  [k \in DOMAIN h |-> UiMessage(h[k].role, h[k].content, h[k].timestamp, SendOf(h[k].call))]

\* Array.prototype.slice(0, -1)
DropLast(list) == IF list = <<>> THEN <<>> ELSE SubSeq(list, 1, Len(list) - 1)

\* The page sends no more requests than the model has room for
RoomForRequest == ui.sends + ui.fetches < MaxCalls

\* Chat.tsx:70-95  sendMessage up to the await of fetch
UiSendMessage(text) ==
  /\ Trim(text) # <<>>
  /\ ~ui.isLoading
  /\ RoomForRequest
  /\ ui' = [ui EXCEPT !.inputValue = <<>>, !.error = FALSE, !.message = Trim(text),
                      !.messages = Append(@, UiMessage("user", Trim(text), now, ui.sends + 1)),
                      !.isLoading = TRUE, !.sends = @ + 1]
  /\ UNCHANGED <<chatHistory, financialProfile, initialized, storage, reqs, restarts, now,
                 history, instances, stepResults, failures, run, executions, crashes>>

\* The request of sendMessage reaches the actor (index.ts:62-77)
UiChatArrives(c) ==
  /\ Cardinality(ChatCalls) < ui.sends
  /\ HandleChatStart(c, ui.message)

\* Chat.tsx:97-119  the response of /api/chat is there: the reply is
\* appended, or the catch removes the last message of the list
UiSendSettles ==
  /\ ui.isLoading
  /\ Cardinality(ChatCalls) = ui.sends
  /\ reqs[ChatCallOf(ui.sends)].pc = "done"
  /\ LET resp == reqs[ChatCallOf(ui.sends)]
     IN ui' = IF resp.status = 200
                THEN [ui EXCEPT !.messages =
                                  Append(@, UiMessage("assistant", resp.body[1].content,
                                                      resp.body[1].timestamp, ui.sends)),
                                !.isLoading = FALSE]
                ELSE [ui EXCEPT !.error = TRUE, !.messages = DropLast(@),
                                !.inputValue = ui.message, !.isLoading = FALSE]
  /\ UNCHANGED <<chatHistory, financialProfile, initialized, storage, reqs, restarts, now,
                 history, instances, stepResults, failures, run, executions, crashes>>

\* Chat.tsx:125-134  triggerBriefing up to the await of fetch
UiTriggerBriefing ==
  /\ ~ui.isBriefingLoading
  /\ ui.triggers < MaxInstances
  /\ ui' = [ui EXCEPT !.isBriefingLoading = TRUE, !.error = FALSE, !.triggers = @ + 1,
                      !.briefing = "sent"]
  /\ UNCHANGED <<chatHistory, financialProfile, initialized, storage, reqs, restarts, now,
                 history, instances, stepResults, failures, run, executions, crashes>>

\* The request of triggerBriefing reaches the worker (index.ts:154-163)
UiTriggerArrives(i) ==
  /\ ui.briefing = "sent"
  /\ Cardinality(Created) < ui.triggers
  /\ Create(i)

\* Chat.tsx:136-145  the response is ok: the refresh is scheduled
UiTriggerAnswered ==
  /\ ui.briefing = "sent"
  /\ Cardinality(Created) = ui.triggers
  /\ ui' = [ui EXCEPT !.briefing = "timer"]
  /\ UNCHANGED <<chatHistory, financialProfile, initialized, storage, reqs, restarts, now,
                 history, instances, stepResults, failures, run, executions, crashes>>

\* Chat.tsx:142-143, 53-55  the timer fires: fetchHistory sends its request
UiTimerFires ==
  /\ ui.briefing = "timer"
  /\ RoomForRequest
  /\ ui' = [ui EXCEPT !.briefing = "fetching", !.fetches = @ + 1]
  /\ UNCHANGED <<chatHistory, financialProfile, initialized, storage, reqs, restarts, now,
                 history, instances, stepResults, failures, run, executions, crashes>>

\* The request of fetchHistory reaches the actor (index.ts:84-93)
UiHistoryArrives(c) ==
  /\ Cardinality(HistoryCalls) < ui.fetches
  /\ GetHistory(c)

\* Chat.tsx:56-60, 144  the history is there: it replaces the list
UiHistoryAnswered ==
  /\ ui.briefing = "fetching"
  /\ Cardinality(HistoryCalls) = ui.fetches
  /\ ui' = [ui EXCEPT !.messages = UiMessages(reqs[LastHistoryCall].body), !.error = FALSE,
                      !.isBriefingLoading = FALSE, !.briefing = "idle"]
  /\ UNCHANGED <<chatHistory, financialProfile, initialized, storage, reqs, restarts, now,
                 history, instances, stepResults, failures, run, executions, crashes>>

\* The lengths of the history the page finds when it is opened
UiOldLengths == 0..2

\* The page after its first fetchHistory (Chat.tsx:46-48) on an actor that
\* holds a history of earlier conversations
UiInit ==
  /\ chatHistory = <<>>
  /\ financialProfile = <<>>
  /\ initialized = FALSE
  /\ reqs = [c \in Calls |-> NewRequest]
  /\ restarts = 0
  /\ now = 0
  /\ WorkflowInit
  /\ \E n \in UiOldLengths :
       /\ storage = IF n = 0 THEN <<>>
                    ELSE [chatHistory |-> OldHistory(n), financialProfile |-> <<>>]
       /\ ui = [NoUi EXCEPT !.messages = [k \in 1..n |->
                   UiMessage(OldHistory(n)[k].role, OldHistory(n)[k].content, 0, 0)]]

\* The page and the actor behind it
UiNext ==
  \/ \E text \in ChatTexts : UiSendMessage(text)
  \/ \E c \in Calls : UiChatArrives(c)
  \/ \E c \in Calls, ai \in AiReplies, w \in ChatSaveOutcomes : HandleChatReply(c, ai, w)
  \/ \E c \in Calls : HandleChatAiThrows(c)
  \/ UiSendSettles
  \/ UiTriggerBriefing
  \/ \E i \in Instances : UiTriggerArrives(i)
  \/ UiTriggerAnswered
  \/ UiTimerFires
  \/ \E c \in Calls : UiHistoryArrives(c)
  \/ UiHistoryAnswered

UiSpec == UiInit /\ [][UiNext]_vars

\* ------------------------------------------------------------ properties
\* What ctx.storage holds under 'chatHistory'
Stored == IF "chatHistory" \in DOMAIN storage THEN storage["chatHistory"] ELSE <<>>

\* What the backend actor's storage holds under 'history'
BackendStored == IF "history" \in DOMAIN storage THEN storage["history"] ELSE <<>>

\* The places of h that request (or instance) id filled with a message of role r
Positions(h, id, r) == { k \in DOMAIN h : h[k].call = id /\ h[k].role = r }

SucceededChat(c) == reqs[c].op = "chat" /\ reqs[c].pc = "done" /\ reqs[c].status = 200

NoClearSent == \A d \in Calls : reqs[d].op # "clear"

\* C1: as long as no clear was sent, the persisted history holds, for every
\* sendMessage that returned success, exactly one user message and exactly
\* one assistant message of that call, the user message (the trimmed text)
\* before the assistant message, however the calls interleaved at AI.run.
C1_NoLostChatMessage ==
  NoClearSent =>
    \A c \in Calls : SucceededChat(c) =>
      /\ Cardinality(Positions(Stored, c, "user")) = 1
      /\ Cardinality(Positions(Stored, c, "assistant")) = 1
      /\ \A k \in Positions(Stored, c, "user"), l \in Positions(Stored, c, "assistant") :
           k < l /\ Stored[k].content = Trim(reqs[c].message)

\* The same for the backend actor, which stores the message untrimmed and
\* has no clear.
BackendNoLostChatMessage ==
  \A c \in Calls : SucceededChat(c) =>
    /\ Cardinality(Positions(BackendStored, c, "user")) = 1
    /\ Cardinality(Positions(BackendStored, c, "assistant")) = 1
    /\ \A k \in Positions(BackendStored, c, "user"),
          l \in Positions(BackendStored, c, "assistant") :
         k < l /\ BackendStored[k].content = reqs[c].message

\* Two sendMessage calls that overlapped (both user messages were pushed
\* before either reply) and both returned success.
C1_Witness ==
  /\ SucceededChat(1) /\ SucceededChat(2)
  /\ Len(Stored) = 4
  /\ Stored[1].role = "user" /\ Stored[2].role = "user"
  /\ Stored[1].call # Stored[2].call

\* C2: while one request is between its first mutation of the in-memory
\* state and the end of its save (it awaits AI.run), no other request's
\* handler runs on the actor.
C2_MutualExclusion ==
  [][\A c, d \in Calls :
       (c # d /\ reqs[c].pc = "ai" /\ reqs[d].pc = "new") => reqs'[d].pc = "new"]_vars

\* C3: once a StepResult exists for a step of an instance, the StepResult
\* stays as it is and the body of that step is not entered again for that
\* instance, through restarts and replays of run().
C3_CheckpointedStepNeverReruns ==
  [][\A i \in Instances, s \in StepNames :
       s \in DOMAIN stepResults[i] =>
         /\ s \in DOMAIN stepResults'[i]
         /\ stepResults'[i][s] = stepResults[i][s]
         /\ executions'[i][s] = executions[i][s]]_vars

\* The engine restarted after fetch-news and analyze-news were checkpointed
\* and before inject-briefing ran; the replay was handed both stored outputs
\* and entered the body of inject-briefing only: every body ran once.
C3_Witness ==
  /\ crashes = 1
  /\ run[1].cached = {"fetch-news", "analyze-news"}
  /\ executions[1] = [s \in StepNames |-> 1]
  /\ "inject-briefing" \in DOMAIN stepResults[1]

\* C4: the persisted history of the target actor holds at most one briefing
\* message of each workflow instance.
C4_OneBriefingPerInstance ==
  \A i \in Instances : Cardinality(Positions(BackendStored, i, "assistant")) <= 1

\* The places of h filled by injectBriefing requests that carried key k
InjectedWithKey(h, k) ==
  { n \in DOMAIN h : reqs[h[n].call].op = "inject" /\ reqs[h[n].call].idempotencyKey = k }

\* C5: the history, in memory and persisted, holds at most one message
\* appended by injectBriefing calls that carried the same idempotency key.
C5_InjectOncePerKey ==
  \A k \in IdempotencyKeys :
    /\ Cardinality(InjectedWithKey(chatHistory, k)) <= 1
    /\ Cardinality(InjectedWithKey(Stored, k)) <= 1

\* Request c returns in this step, without / with a success response
FailsNow(c) == reqs[c].pc # "done" /\ reqs'[c].pc = "done" /\ reqs'[c].status # 200

SucceedsNow(c) == reqs[c].pc # "done" /\ reqs'[c].pc = "done" /\ reqs'[c].status = 200

\* C6: a request that returns without a success response leaves no trace:
\* no message of it is in the in-memory or the persisted history, and a
\* handler that ran in this one step leaves the in-memory history and
\* profile as loaded and the storage as it was.
C6_AllOrNothing ==
  [][\A c \in Calls : FailsNow(c) =>
       /\ \A r \in {"user", "assistant"} :
            Positions(chatHistory', c, r) = {} /\ Positions(Stored', c, r) = {}
       /\ reqs[c].pc = "new" =>
            /\ chatHistory' = LoadedHistory
            /\ financialProfile' = LoadedProfile
            /\ storage' = storage]_vars

\* C7: at the step in which a request returns a success response, storage
\* holds its full effect: sendMessage its user and its assistant message,
\* injectBriefing its message, clear an empty history, updateProfile the
\* supplied fields.
C7_PersistBeforeResponse ==
  [][\A c \in Calls : SucceedsNow(c) =>
       /\ reqs'[c].op = "chat" =>
            Positions(Stored', c, "user") # {} /\ Positions(Stored', c, "assistant") # {}
       /\ reqs'[c].op = "inject" => Positions(Stored', c, "assistant") # {}
       /\ reqs'[c].op = "clear" => "chatHistory" \in DOMAIN storage' /\ Stored' = <<>>
       /\ reqs'[c].op = "profile" =>
            /\ "financialProfile" \in DOMAIN storage'
            /\ \A f \in DOMAIN reqs'[c].updates :
                 /\ f \in DOMAIN storage'["financialProfile"]
                 /\ storage'["financialProfile"][f] = reqs'[c].updates[f]]_vars

\* C8: a sendMessage whose AI.run rejected has returned a success response
\* and its fallback assistant message is persisted.
C8_FallbackOnInvokerFailure ==
  \A c \in Calls : reqs[c].aiFailed =>
    /\ reqs[c].status = 200
    /\ Positions(Stored, c, "assistant") # {}

\* The status changes an instance may make
StatusStep(a, b) ==
  \/ a = b
  \/ a = "none" /\ b = "running"
  \/ a = "running" /\ b \in {"complete", "errored"}

\* C9: an instance starts as running and its status changes at most once
\* more, to complete or to errored; a complete or errored instance keeps its
\* status, through restarts and replays.
C9_StatusMonotonic ==
  [][\A i \in Instances : StatusStep(instances[i].status, instances'[i].status)]_vars

\* The engine restarted after the instance had completed, and it is still complete.
C9_Witness == instances[1].status = "complete" /\ run[1].pc = "down"

\* The place of a step in run()
StepOrder(s) ==
  CASE s = "fetch-news"      -> 1
    [] s = "analyze-news"    -> 2
    [] s = "inject-briefing" -> 3

\* The error a step's body throws
ErrorOf(s) == IF s = "inject-briefing" THEN "StorageError" ELSE "InferenceError"

Exhausted(i, s) == failures[i][s] >= MaxAttempts

\* C10: when a step has used up its attempts the instance is errored with
\* that step's error, no later step has a StepResult or was ever entered,
\* the earlier steps have their StepResults, and from then on neither the
\* StepResults nor the execution counts of the instance change.
C10_ExhaustionStops ==
  /\ [](\A i \in Instances, s \in StepNames : Exhausted(i, s) =>
          /\ instances[i].status = "errored"
          /\ instances[i].error = ErrorOf(s)
          /\ \A t \in StepNames :
               /\ StepOrder(t) > StepOrder(s) =>
                    executions[i][t] = 0 /\ t \notin DOMAIN stepResults[i]
               /\ StepOrder(t) < StepOrder(s) => t \in DOMAIN stepResults[i])
  /\ [][\A i \in Instances : (\E s \in StepNames : Exhausted(i, s)) =>
          stepResults'[i] = stepResults[i] /\ executions'[i] = executions[i]]_vars

\* analyze-news used up its attempts after fetch-news was checkpointed.
C10_Witness ==
  /\ Exhausted(1, "analyze-news")
  /\ instances[1].status = "errored"
  /\ DOMAIN stepResults[1] = {"fetch-news"}

\* C11: an instance is complete only if fetch-news, analyze-news and
\* inject-briefing all have a StepResult, and its output is then the value
\* run() returned; an instance that is not complete has no output.
C11_CompleteHasAllSteps ==
  \A i \in Instances :
    /\ instances[i].status = "complete" =>
         DOMAIN stepResults[i] = StepNames /\ instances[i].output = RunOutput
    /\ instances[i].status # "complete" => instances[i].output = ""

\* An instance completed with the three StepResults, the last one true (the
\* value the body of inject-briefing returns), each body entered once.
C11_Witness ==
  /\ instances[1].status = "complete"
  /\ instances[1].output = RunOutput
  /\ DOMAIN stepResults[1] = StepNames
  /\ stepResults[1]["inject-briefing"].output = TRUE
  /\ crashes = 0

\* The steps of run() before step s
Preceding(s) == { t \in StepNames : StepOrder(t) < StepOrder(s) }

\* C12: within an instance the body of a step is entered only when every
\* preceding step has its StepResult and no body of the instance is waiting
\* for its StepResult to be written; a StepResult is written only for a
\* step whose predecessors have theirs.
C12_StepsInOrder ==
  [][\A i \in Instances, s \in StepNames :
       /\ executions'[i][s] # executions[i][s] =>
            /\ Preceding(s) \subseteq DOMAIN stepResults[i]
            /\ run[i].phase = "body"
            /\ \A t \in StepNames \ {s} : executions'[i][t] = executions[i][t]
       /\ (s \in DOMAIN stepResults'[i] /\ s \notin DOMAIN stepResults[i]) =>
            Preceding(s) \subseteq DOMAIN stepResults[i]]_vars

\* The body of inject-briefing has been entered with the StepResults of
\* fetch-news and analyze-news written and its own still to be written, in
\* a replay after an engine restart.
C12_Witness ==
  /\ executions[1]["inject-briefing"] = 1
  /\ run[1].pc = "inject-briefing" /\ run[1].phase = "commit"
  /\ DOMAIN stepResults[1] = {"fetch-news", "analyze-news"}
  /\ crashes = 1

Terminal(i) == instances[i].status \in {"complete", "errored"}

C14_LoadOnce ==
  \A c, d \in Calls :
    (c # d /\ reqs[c].loaded /\ reqs[d].loaded) => reqs[c].life # reqs[d].life

\* g begins with all of h, in the same order
IsPrefix(h, g) == Len(h) <= Len(g) /\ SubSeq(g, 1, Len(h)) = h

\* C15: in every step up to which no clear was sent, the persisted history
\* after the step begins with the persisted history before it: nothing
\* persisted is lost or reordered, through requests, rejected puts,
\* overlapping sendMessage calls and restarts.
C15_PersistedAppendOnly ==
  [][NoClearSent' =>
       IsPrefix(Stored, Stored') /\ IsPrefix(BackendStored, BackendStored')]_vars

\* A message persisted before a restart is followed in the persisted
\* history by a message of a request handled after it.
C15_Witness ==
  /\ NoClearSent
  /\ reqs[1].life = 0 /\ reqs[2].life = 1
  /\ Len(Stored) >= 2
  /\ Stored[1].call = 1
  /\ Stored[Len(Stored)].call = 2

\* What ctx.storage holds under 'financialProfile'
StoredProfile ==
  IF "financialProfile" \in DOMAIN storage THEN storage["financialProfile"] ELSE <<>>

\* Request c is handled in this step as the first one of its process
FirstAfterStart(c) == reqs[c].pc = "new" /\ reqs'[c].pc # "new" /\ ~initialized

\* C16: the first request handled by a process works on exactly what is
\* stored, and on an empty history and an empty profile where nothing is
\* stored: getHistory and getProfile return it, a request that mutates
\* nothing leaves it in memory, sendMessage and injectBriefing append to it,
\* updateProfile merges into it, and clear leaves the stored profile.
C16_RestartRecovery ==
  [][\A c \in Calls : FirstAfterStart(c) =>
       /\ reqs'[c].op = "history" => reqs'[c].body = Stored
       /\ reqs'[c].op = "getProfile" => reqs'[c].profile = StoredProfile
       /\ reqs'[c].op \in {"history", "getProfile", "unknown"} =>
            chatHistory' = Stored /\ financialProfile' = StoredProfile
       /\ reqs'[c].op \in {"chat", "inject"} =>
            /\ IsPrefix(Stored, chatHistory')
            /\ Len(chatHistory') <= Len(Stored) + 1
            /\ financialProfile' = StoredProfile
       /\ reqs'[c].op = "profile" =>
            /\ chatHistory' = Stored
            /\ financialProfile' = MergedProfile(StoredProfile, reqs'[c].updates, now)
       /\ reqs'[c].op = "clear" => financialProfile' = StoredProfile]_vars

\* After a restart the first request, a getHistory, read the storage and
\* returned the stored history, which holds the message persisted before.
C16_Witness ==
  /\ reqs[2].op = "history" /\ reqs[2].life = 1 /\ reqs[2].loaded
  /\ reqs[2].body = Stored /\ Stored # <<>>
  /\ chatHistory = Stored
  /\ financialProfile = StoredProfile

\* C17: a sendMessage whose text is empty after trimming is answered at
\* once with the validation error 400: the LLM is not called, the history
\* in memory is the loaded one and the storage is as it was.
C17_EmptyMessageRejected ==
  [][\A c \in Calls :
       (reqs[c].pc = "new" /\ reqs'[c].op = "chat" /\ Trim(reqs'[c].message) = <<>>) =>
         /\ reqs'[c].pc = "done"
         /\ reqs'[c].status = 400
         /\ chatHistory' = LoadedHistory
         /\ history' = BackendLoadedHistory
         /\ storage' = storage]_vars

\* C18: an injectBriefing whose text is empty is answered with the
\* validation error 400, the history in memory is the loaded one and the
\* storage is as it was.
C18_EmptyBriefingRejected ==
  [][\A c \in Calls :
       (reqs[c].pc = "new" /\ reqs'[c].op = "inject" /\ reqs'[c].briefing = <<>>) =>
         /\ reqs'[c].pc = "done"
         /\ reqs'[c].status = 400
         /\ chatHistory' = LoadedHistory
         /\ history' = BackendLoadedHistory
         /\ storage' = storage]_vars

\* C19: an updateProfile that returns success returns a profile that has
\* every field of the partial other than lastUpdated with the supplied
\* value, every other field of the previous profile with its previous
\* value, and lastUpdated equal to the current time, also when the partial
\* carries a lastUpdated of its own; the returned profile is the persisted
\* profile and the profile in memory.
C19_ProfileMerge ==
  [][\A c \in Calls :
       (reqs[c].pc = "new" /\ reqs'[c].op = "profile" /\ reqs'[c].status = 200) =>
         LET u == reqs'[c].updates
             q == reqs'[c].profile
         IN /\ DOMAIN q = DOMAIN LoadedProfile \cup DOMAIN u \cup {"lastUpdated"}
            /\ \A f \in DOMAIN u \ {"lastUpdated"} : q[f] = u[f]
            /\ \A f \in DOMAIN LoadedProfile \ (DOMAIN u \cup {"lastUpdated"}) :
                 q[f] = LoadedProfile[f]
            /\ q["lastUpdated"] = now
            /\ q = StoredProfile'
            /\ q = financialProfile']_vars

\* After updateProfile({totalDebt: 2000}) a later updateProfile whose partial
\* carried a stale lastUpdated returned the debt kept, the income supplied
\* and the later time of the call.
C19_Witness ==
  /\ reqs[1].op = "profile" /\ reqs[1].status = 200
  /\ reqs[2].op = "profile" /\ reqs[2].status = 200
  /\ "totalDebt" \in DOMAIN reqs[1].updates
  /\ "lastUpdated" \in DOMAIN reqs[2].updates
  /\ reqs[2].profile["totalDebt"] = 2000
  /\ reqs[2].profile["monthlyIncome"] = 900
  /\ reqs[2].profile["lastUpdated"] > reqs[1].profile["lastUpdated"]
  /\ StoredProfile = reqs[2].profile

\* The step in which clear c returns success leaves the history empty in
\* memory and in storage, the profile in memory as loaded and the stored
\* profile as it was.
ClearEffect(c) ==
  (SucceedsNow(c) /\ reqs'[c].op = "clear") =>
    /\ chatHistory' = <<>>
    /\ "chatHistory" \in DOMAIN storage' /\ Stored' = <<>>
    /\ financialProfile' = LoadedProfile
    /\ StoredProfile' = StoredProfile

\* C20: a clear that returns success has set the history to length 0 in
\* memory and in storage and has left the profile, in memory and in
\* storage, exactly as it was.
C20_ClearKeepsProfile == [][\A c \in Calls : ClearEffect(c)]_vars

\* No request so far returned without success
NoFailedRequest == \A d \in Calls : reqs[d].pc = "done" => reqs[d].status \in {200, 400, 404}

\* The same as C20 for the clears before which no request has failed.
ClearKeepsProfileAfterSuccesses ==
  [][NoFailedRequest => \A c \in Calls : ClearEffect(c)]_vars

\* A clear returned success on an actor whose stored profile is not empty:
\* the history is empty and the profile is in memory and in storage.
ClearReached ==
  /\ reqs[2].op = "clear" /\ reqs[2].status = 200
  /\ reqs[1].op = "profile" /\ reqs[1].status = 200
  /\ Stored = <<>> /\ chatHistory = <<>>
  /\ StoredProfile = reqs[1].profile /\ financialProfile = reqs[1].profile

\* C21: getHistory returns the whole history the actor holds and getProfile
\* the whole profile, and each leaves the history and the profile in memory
\* as they are (as loaded, in the first request of a process) and the
\* storage untouched, also while a sendMessage awaits its reply.
C21_ReadsAreSideEffectFree ==
  [][\A c \in Calls :
       (reqs[c].pc = "new" /\ reqs'[c].op \in {"history", "getProfile"}) =>
         /\ reqs'[c].status = 200
         /\ reqs'[c].op = "history" => reqs'[c].body = LoadedHistory
         /\ reqs'[c].op = "getProfile" => reqs'[c].profile = LoadedProfile
         /\ chatHistory' = LoadedHistory
         /\ financialProfile' = LoadedProfile
         /\ storage' = storage
         /\ \A d \in Calls \ {c} : reqs'[d] = reqs[d]]_vars

\* The same for GET /history of the backend actor.
BackendReadIsSideEffectFree ==
  [][\A c \in Calls :
       (reqs[c].pc = "new" /\ reqs'[c].op = "history") =>
         /\ reqs'[c].status = 200
         /\ reqs'[c].body = BackendLoadedHistory
         /\ history' = BackendLoadedHistory
         /\ storage' = storage]_vars

\* A getHistory ran while a sendMessage was awaiting its reply: it returned
\* the user message held in memory, and nothing has been stored.
C21_Witness ==
  /\ reqs[1].op = "chat" /\ reqs[1].pc = "ai"
  /\ reqs[2].op = "history" /\ reqs[2].status = 200
  /\ Len(reqs[2].body) = 1 /\ reqs[2].body = chatHistory
  /\ storage = <<>>

\* No other operation ran while sendMessage c was in flight: no request
\* arrived after it, and no earlier request is still awaiting AI.run or has
\* pushed a message since c started.
AloneInFlight(c) ==
  \A d \in Calls \ {c} :
    /\ d > c => reqs[d].pc = "new"
    /\ d < c =>
         /\ reqs[d].pc \in {"done", "lost"}
         /\ \A k \in DOMAIN chatHistory :
              chatHistory[k].call = d => k <= Len(reqs[c].seen)

\* The step in which sendMessage c returns success, alone in flight, leaves
\* the history it found followed by a user message with content wanted and
\* an assistant message with non-empty content, the second not earlier
\* (strict: later) than the first; that history is stored and the response
\* carries the assistant message.
SendMessageEffect(c, wanted, strict) ==
  (SucceedsNow(c) /\ reqs'[c].op = "chat" /\ AloneInFlight(c)) =>
    LET h == reqs[c].seen
        n == Len(reqs[c].seen)
        g == chatHistory'
    IN /\ Len(g) = n + 2
       /\ SubSeq(g, 1, n) = h
       /\ g[n + 1].role = "user" /\ g[n + 1].content = wanted
       /\ g[n + 2].role = "assistant" /\ g[n + 2].content # <<>>
       /\ IF strict THEN g[n + 2].timestamp > g[n + 1].timestamp
                    ELSE g[n + 2].timestamp >= g[n + 1].timestamp
       /\ Stored' = g
       /\ reqs'[c].body = <<g[n + 2]>>

Min(a, b) == IF a <= b THEN a ELSE b

\* The history as it stood when sendMessage c had pushed its user message,
\* as role and content
PushedHistory(c) ==
  [k \in 1..(Len(reqs[c].seen) + 1) |->
     IF k <= Len(reqs[c].seen)
       THEN [role |-> reqs[c].seen[k].role, content |-> reqs[c].seen[k].content]
       ELSE [role |-> "user", content |-> Trim(reqs[c].message)]]

\* C23: the messages a sendMessage hands to AI.run are one system entry
\* followed by the last min(20, length) entries of the history as it stood
\* with the user message pushed, oldest first: at most 21 entries, the last
\* one the user message just sent.
C23_GenerationContext ==
  \A c \in Calls : (reqs[c].op = "chat" /\ reqs[c].pc = "ai") =>
    LET ctx == reqs[c].context
        hist == PushedHistory(c)
        m == Min(20, Len(PushedHistory(c)))
    IN /\ Len(ctx) = 1 + m
       /\ Len(ctx) <= 21
       /\ ctx[1].role = "system"
       /\ \A k \in 1..m :
            /\ ctx[1 + k].role = hist[Len(hist) - m + k].role
            /\ ctx[1 + k].content = hist[Len(hist) - m + k].content
       /\ ctx[Len(ctx)].role = "user"
       /\ ctx[Len(ctx)].content = Trim(reqs[c].message)

\* A sendMessage found 21 stored messages: its context has 21 entries, the
\* system entry and the last 20 of the 22 messages, beginning with the third.
C23_Witness ==
  \E c \in Calls :
    /\ reqs[c].op = "chat" /\ reqs[c].pc = "ai"
    /\ Len(reqs[c].seen) = 21
    /\ Len(chatHistory) = 22
    /\ Len(reqs[c].context) = 21
    /\ reqs[c].context[2].content = <<OldTexts[3]>>
    /\ reqs[c].context[21].content = <<"yo">>

\* A status query that was answered
StatusAnswered(c) == reqs[c].op = "status" /\ reqs[c].pc = "done"

\* C24: a status query for an id that no instance has is answered with a
\* failure that no query failing for another reason is answered with, and a
\* query for the id of an instance is answered with the status, the output
\* and the error of that instance.
C24_StatusOfInstance ==
  /\ [](\A c, d \in Calls :
          (StatusAnswered(c) /\ ~reqs[c].known /\ StatusAnswered(d) /\ reqs[d].known) =>
            /\ reqs[c].status # 200
            /\ <<reqs[c].status, reqs[c].body>> # <<reqs[d].status, reqs[d].body>>)
  /\ [][\A c \in Calls, i \in Instances :
          (reqs[c].pc = "new" /\ reqs'[c].op = "status" /\ reqs'[c].instanceId = i
             /\ reqs'[c].known /\ ~reqs'[c].aiFailed) =>
            /\ reqs'[c].status = 200
            /\ reqs'[c].body = <<[status |-> instances[i].status,
                                  output |-> instances[i].output,
                                  error |-> instances[i].error]>>]_vars

\* The part of C24 about the ids of instances, and a state where it applies:
\* the query was answered with a status other than running.
C24_KnownIdAnswered ==
  [][\A c \in Calls, i \in Instances :
       (reqs[c].pc = "new" /\ reqs'[c].op = "status" /\ reqs'[c].instanceId = i
          /\ reqs'[c].known /\ ~reqs'[c].aiFailed) =>
         /\ reqs'[c].status = 200
         /\ reqs'[c].body = <<[status |-> instances[i].status,
                               output |-> instances[i].output,
                               error |-> instances[i].error]>>]_vars

C24_KnownIdReached ==
  \E c \in Calls :
    /\ StatusAnswered(c) /\ reqs[c].known /\ reqs[c].status = 200
    /\ reqs[c].body[1].status = "errored"

\* A trigger that was answered with the id of an instance
Triggered(c) == reqs[c].op = "trigger" /\ reqs[c].pc = "done" /\ reqs[c].status = 200

\* No body of a step of instance i has run and no StepResult is written
NoStepYet(i) ==
  /\ stepResults[i] = <<>>
  /\ \A s \in StepNames : executions[i][s] = 0

Checkpointed(i, s) == s \notin DOMAIN stepResults[i] /\ s \in DOMAIN stepResults'[i]

\* A StepResult of analyze-news is there only after an execution of the
\* body that did not fail
OnlyAfterSuccess ==
  \A i \in Instances : "analyze-news" \in DOMAIN stepResults[i] =>
    executions[i]["analyze-news"] > failures[i]["analyze-news"]

\* The text runLLM resolved with in the execution whose result is written
Generated(i) == run[i].generated

\* That text, or the default text when it is empty
GeneratedOrDefault(i) == IF run[i].generated = <<>> THEN NoSummaryText ELSE run[i].generated

\* C26 as claimed: a rejection of runLLM in analyze-news writes no
\* StepResult, a StepResult of analyze-news is there only after an
\* invocation that resolved, and its output is the text that invocation
\* generated.
C26_AnalyzeNewsGenerated ==
  /\ []OnlyAfterSuccess
  /\ [][\A i \in Instances :
          /\ failures'[i]["analyze-news"] # failures[i]["analyze-news"] =>
               stepResults' = stepResults
          /\ Checkpointed(i, "analyze-news") =>
               stepResults'[i]["analyze-news"].output = Generated(i)]_vars

\* C26 amended: as above, but the output is the default text 'No summary
\* generated.' when the invocation resolved with no text.
C26_AnalyzeNewsGeneratedOrDefault ==
  /\ []OnlyAfterSuccess
  /\ [][\A i \in Instances :
          /\ failures'[i]["analyze-news"] # failures[i]["analyze-news"] =>
               stepResults' = stepResults
          /\ Checkpointed(i, "analyze-news") =>
               stepResults'[i]["analyze-news"].output = GeneratedOrDefault(i)]_vars

\* analyze-news failed once, then resolved with no text, and its StepResult
\* holds the default text.
C26_Witness ==
  /\ failures[1]["analyze-news"] > 0
  /\ "analyze-news" \in DOMAIN stepResults[1]
  /\ stepResults[1]["analyze-news"].output = NoSummaryText

\* The messages of h that instance i put there
BriefingsOf(h, i) == Positions(h, i, "assistant")

\* The step in which the body of inject-briefing of some instance returns
InjectCompletes ==
  \E i \in Instances :
    /\ run[i].pc = "inject-briefing" /\ run[i].phase = "body"
    /\ run'[i].pc = "inject-briefing" /\ run'[i].phase = "commit"

\* C27: the step in which an instance fails leaves the record and the
\* StepResults of every other instance as they were; the state of the
\* actor, in memory and in storage, changes only in a step in which the
\* body of inject-briefing returns; and an instance that failed at
\* analyze-news has put nothing into the actor's history.
C27_FailureIsLocal ==
  /\ [][\A i \in Instances :
          (instances[i].status # "errored" /\ instances'[i].status = "errored") =>
            \A j \in Instances \ {i} :
              instances'[j] = instances[j] /\ stepResults'[j] = stepResults[j]]_vars
  /\ [][(history' # history \/ storage' # storage \/ chatHistory' # chatHistory
            \/ financialProfile' # financialProfile) => InjectCompletes]_vars
  /\ [](\A i \in Instances :
          (instances[i].status = "errored" /\ instances[i].error = "InferenceError") =>
            BriefingsOf(history, i) = {} /\ BriefingsOf(BackendStored, i) = {})

\* An instance failed at inject-briefing and the actor's history in memory
\* holds a briefing of it
FailedInjectLeftBriefing ==
  \E i \in Instances :
    /\ instances[i].status = "errored" /\ instances[i].error = "StorageError"
    /\ BriefingsOf(history, i) # {}

\* An instance failed at analyze-news
FailedAtAnalyzeNews ==
  \E i \in Instances : instances[i].status = "errored" /\ instances[i].error = "InferenceError"

SomeInstanceComplete == \E i \in Instances : instances[i].status = "complete"

\* C28: every sendMessage that has called the LLM invoker is answered.
C28_SendMessageReturns ==
  \A c \in Calls :
    (reqs[c].op = "chat" /\ reqs[c].pc = "ai") ~> (reqs[c].pc = "done")

\* The clock has run out while a sendMessage still awaits AI.run
AwaitingAfterLastTick ==
  \E c \in Calls : reqs[c].op = "chat" /\ reqs[c].pc = "ai" /\ now = MaxTicks

\* C29: the persisted history holds no user message of a sendMessage
\* without the assistant message of the same call.
C29_NoHalfAppliedChat ==
  \A c \in Calls :
    /\ Positions(Stored, c, "user") # {} => Positions(Stored, c, "assistant") # {}
    /\ Positions(BackendStored, c, "user") # {} => Positions(BackendStored, c, "assistant") # {}

\* A sendMessage was answered with success and the persisted history holds
\* its two messages
BothMessagesPersisted ==
  \E c \in Calls :
    /\ SucceededChat(c)
    /\ Positions(Stored, c, "user") # {} /\ Positions(Stored, c, "assistant") # {}

\* No request is being handled: none awaits AI.run
Quiescent == \A c \in Calls : reqs[c].pc # "ai"

\* The history and the profile in memory are the stored ones
MemoryIsStored == chatHistory = Stored /\ financialProfile = StoredProfile

\* C31: whenever the process has loaded its state and no request is being
\* handled, the history and the profile in memory equal the stored ones.
C31_QuiescentConsistency == (initialized /\ Quiescent) => MemoryIsStored

\* The same in the states before which no request has failed
QuiescentAfterSuccesses == (initialized /\ Quiescent /\ NoFailedRequest) => MemoryIsStored

\* Two requests that changed the state were answered with success, and
\* nothing is in flight
QuiescentReached ==
  /\ initialized /\ Quiescent
  /\ \A c \in Calls : reqs[c].pc = "done" /\ reqs[c].status = 200
  /\ Stored # <<>> /\ StoredProfile # <<>>

\* Every assistant message that a sendMessage put into h has the user
\* message of the same call at an earlier place of h
RepliesFollowQuestions(h) ==
  \A k \in DOMAIN h :
    (h[k].role = "assistant" /\ reqs[h[k].call].op = "chat") =>
      \E j \in 1..(k - 1) : h[j].role = "user" /\ h[j].call = h[k].call

\* C32: in the history, in memory and in storage, every reply appended by a
\* sendMessage comes after the user message of the same call.
C32_NoOrphanReply == RepliesFollowQuestions(chatHistory) /\ RepliesFollowQuestions(Stored)

\* The same in the states before which no clear was sent
NoOrphanReplyWithoutClear == NoClearSent => C32_NoOrphanReply

\* Two sendMessage calls overlapped and both replies are in the history
OverlappingRepliesReached ==
  /\ \A c \in Calls : SucceededChat(c)
  /\ Len(chatHistory) = 4
  /\ chatHistory[1].call # chatHistory[2].call

\* The body of step s of instance i is entered in this step
BodyEntered(i, s) == executions'[i][s] # executions[i][s]

\* C33: the body of analyze-news is entered with the stored output of
\* fetch-news as its news, and the body of inject-briefing with the stored
\* output of analyze-news as its summary, which is the text of the briefing
\* it sends to the actor; also in a replay after a restart of the engine.
C33_ResumeConsistency ==
  [][\A i \in Instances :
       /\ BodyEntered(i, "analyze-news") =>
            /\ "fetch-news" \in DOMAIN stepResults[i]
            /\ run[i].news = stepResults[i]["fetch-news"].output
       /\ BodyEntered(i, "inject-briefing") =>
            /\ "analyze-news" \in DOMAIN stepResults[i]
            /\ run[i].summary = stepResults[i]["analyze-news"].output
            /\ history' # <<>>
            /\ history'[Len(history')].call = i
            /\ history'[Len(history')].content =
                 <<MorningMarker>> \o stepResults[i]["analyze-news"].output]_vars

\* After a restart of the engine the replay was handed the stored outputs
\* of fetch-news and analyze-news, and the briefing sent by inject-briefing
\* is in the actor's history with the stored summary as its text.
C33_Witness ==
  /\ crashes = 1
  /\ {"fetch-news", "analyze-news"} \subseteq run[1].cached
  /\ executions[1]["inject-briefing"] = 1
  /\ history # <<>>
  /\ history[Len(history)].content = <<MorningMarker>> \o stepResults[1]["analyze-news"].output

\* The timestamps of h never go down along h
TimeOrdered(h) == \A j, k \in DOMAIN h : j < k => h[j].timestamp <= h[k].timestamp

\* C34: the timestamps of the history, in memory and in storage, are
\* non-decreasing in history order.
C34_TimestampsOrdered == TimeOrdered(chatHistory) /\ TimeOrdered(Stored)

\* A briefing was injected while a sendMessage awaited its reply, the clock
\* advancing in between: user message, briefing, reply, each later than the
\* one before.
C34_Witness ==
  /\ Len(chatHistory) = 3
  /\ chatHistory[1].role = "user" /\ chatHistory[3].call = chatHistory[1].call
  /\ chatHistory[2].call # chatHistory[1].call
  /\ chatHistory[1].timestamp < chatHistory[2].timestamp
  /\ chatHistory[2].timestamp < chatHistory[3].timestamp

BriefingOfDefaultUser ==
  \E i \in Instances :
    /\ BriefingsOf(BackendStored, i) # {}
    /\ instances[i].params.userId = InjectTarget

\* The step in which the page handles the failure of its send
SendFailsNow == ui.isLoading /\ ~ui'.isLoading /\ ui'.error

\* The list without the messages that stem from send k of the page
WithoutSend(list, k) ==
  LET Other(m) == m.send # k IN SelectSeq(list, Other)

\* C36: when the page handles the failure of a send, the list it shows
\* afterwards is the list it showed before without the messages of that
\* send, and nothing else is removed.
C36_FailedSendRemovesOnlyItself ==
  [][SendFailsNow => ui'.messages = WithoutSend(ui.messages, ui.sends)]_vars

\* The same for the sends during which no refresh replaced the list
FailedSendWithoutRefresh ==
  [][(SendFailsNow /\ ui.fetches = 0) => ui'.messages = WithoutSend(ui.messages, ui.sends)]_vars

\* A send failed on a page that showed earlier messages, and they are shown
FailedSendReached ==
  /\ ui.sends = 1 /\ ~ui.isLoading /\ ui.error /\ ui.fetches = 0
  /\ Len(ui.messages) = 2

====
